---- MODULE Spec2Model ----
(***************************************************************************)
(* A model of serde-yaml's serializer (src/yaml/src/ser.rs): the           *)
(* Serializer with its single result slot `doc`, the builders its          *)
(* container methods hand to the caller, the recursive to_yaml, and the    *)
(* entry points to_writer / to_vec / to_string with the FmtToIoWriter      *)
(* adapter.                                                                *)
(*                                                                         *)
(* Data representation.  Every tagged value is a tuple whose first element *)
(* is its tag:                                                             *)
(*   Yaml node        <<tag, payload>>                                     *)
(*   Option<T>        <<>> (None) or <<x>> (Some(x))                       *)
(*   yaml::Array      a sequence of Yaml nodes                             *)
(*   yaml::Hash       a sequence of <<key, value>> pairs, in iteration     *)
(*                    order, with pairwise different keys                  *)
(*   i64              its 64-bit two's complement pattern, four 16-bit     *)
(*                    limbs, least significant first                       *)
(*   a value to be serialized (a Serialize implementation): <<kind, ...>>, *)
(*                    the events its serialize() sends to the Serializer   *)
(*                                                                         *)
(* The caller.  As in to_yaml, a Serializer is made fresh for one value:   *)
(* it receives one scalar call, or one call that opens a builder followed  *)
(* by calls on that builder and the call that closes it.  The calls on an  *)
(* open builder come in any order and with any argument, so callers that   *)
(* break the key / value protocol are part of the model.  Nested values    *)
(* are encoded by ToYaml, which runs the same method operators.            *)
(***************************************************************************)
EXTENDS Integers, Sequences, FiniteSets, TLC

\* ------------------------------------------------------------------ bounds

\* The largest number of element / key / value calls made on one open builder.
MaxEvents == 4

\* -------------------------------------------------------------- Yaml nodes

YNull == <<"Null", <<>>>>

YBoolean(b) == <<"Boolean", b>>

YInteger(bits) == <<"Integer", bits>>

YString(s) == <<"String", s>>

YArray(a) == <<"Array", a>>

YHash(h) == <<"Hash", h>>

\* ------------------------------------------------------- machine integers

\* One limb is 16 bits; an i64 is four limbs.
Limb == 2^16

LimbMax == Limb - 1

HalfLimb == 2^15

Bits(l1, l2, l3, l4) == <<l1, l2, l3, l4>>

Small(n) == Bits(n, 0, 0, 0)

IntTypes == {"i8", "i16", "i32", "i64", "isize", "u8", "u16", "u32", "u64", "usize"}

Signed(ty) == ty \in {"i8", "i16", "i32", "i64", "isize"}

\* The width of each integer type in bits (isize and usize on a 64-bit target).
Width(ty) ==
    CASE ty \in {"i8", "u8"} -> 8
      [] ty \in {"i16", "u16"} -> 16
      [] ty \in {"i32", "u32"} -> 32
      [] OTHER -> 64

\* Whether the sign bit of the w-bit pattern b is set.
TopBit(w, b) ==
    CASE w = 8 -> b[1] >= 2^7
      [] w = 16 -> b[1] >= HalfLimb
      [] w = 32 -> b[2] >= HalfLimb
      [] OTHER -> b[4] >= HalfLimb

\* The w-bit pattern b with its sign bit copied into every higher bit.
SignExtend(w, b) ==
    IF ~TopBit(w, b) THEN b
    ELSE CASE w = 8 -> Bits(b[1] + (Limb - 2^8), LimbMax, LimbMax, LimbMax)
           [] w = 16 -> Bits(b[1], LimbMax, LimbMax, LimbMax)
           [] w = 32 -> Bits(b[1], b[2], LimbMax, LimbMax)
           [] OTHER -> b

\* A cast that clamps an unsigned value above i64::MAX to i64::MAX (not the code).
CastSaturating(ty, b) ==
    IF Signed(ty) THEN SignExtend(Width(ty), b)
    ELSE IF TopBit(64, b) THEN Bits(LimbMax, LimbMax, LimbMax, HalfLimb - 1) ELSE b

\* `v as i64`: a signed source is sign-extended, an unsigned one zero-extended,
\* and a 64-bit source keeps its bit pattern.
CastI64(ty, b) ==
    IF Signed(ty) THEN SignExtend(Width(ty), b) ELSE b

\* The bit patterns each integer method is called with: the corners of each type.
IntInputs(ty) ==
    CASE Width(ty) = 8 ->
           {Small(0), Small(1), Small(2^7 - 1), Small(2^7), Small(2^8 - 1)}
      [] Width(ty) = 16 ->
           {Small(0), Small(1), Small(HalfLimb - 1), Small(HalfLimb), Small(LimbMax)}
      [] Width(ty) = 32 ->
           {Small(0), Small(1), Bits(LimbMax, HalfLimb - 1, 0, 0),
            Bits(0, HalfLimb, 0, 0), Bits(LimbMax, LimbMax, 0, 0)}
      [] OTHER ->
           {Small(0), Small(1), Bits(LimbMax, LimbMax, LimbMax, HalfLimb - 1),
            Bits(0, 0, 0, HalfLimb), Bits(1, 0, 0, HalfLimb),
            Bits(LimbMax, LimbMax, LimbMax, LimbMax)}

\* ------------------------------------------------------------------ results

Ok == "Ok"

\* Error::Custom with the message of serialize_map_value.
ErrNoKey == "Custom(serialize_map_value called without matching serialize_map_key call)"

\* Result<Yaml>: <<Ok, tree>> or <<error>>; an error carries no tree.
IsOk(r) == r[1] = Ok

\* -------------------------------------------------- values to be serialized

VBool(b) == <<"bool", b>>

VInt(ty, bits) == <<"int", ty, bits>>

VStr(s) == <<"str", s>>

VUnit == <<"unit">>

VUnitStruct(name) == <<"unit_struct", name>>

VUnitVariant(variant) == <<"unit_variant", variant>>

VNone == <<"none">>

VSome(x) == <<"some", x>>

VNewtypeStruct(x) == <<"newtype_struct", x>>

VNewtypeVariant(variant, x) == <<"newtype_variant", variant, x>>

VSeq(elems) == <<"seq", elems>>

VBytes(bytes) == <<"bytes", bytes>>

VTupleVariant(variant, elems) == <<"tuple_variant", variant, elems>>

\* A map-like value: the key and value events its serialize() sends, in order.
\* <<"key", x>> is a serialize_map_key(x) call, <<"value", x>> a
\* serialize_map_value(x) call.
VMap(events) == <<"map", events>>

\* A struct: its fields <<name, value>> in declaration order.
VStruct(fields) == <<"struct", fields>>

VStructVariant(variant, fields) == <<"struct_variant", variant, fields>>

\* ------------------------------------------------------------ yaml::Hash

HasKey(h, k) == \E i \in 1..Len(h) : h[i][1] = k

HashRemove(h, k) == SelectSeq(h, LAMBDA p : p[1] # k)

\* yaml::Hash::insert (a linked hash map): a new key goes to the back; a key the
\* map already holds gets the new value and moves to the back.
HashInsert(h, k, v) == Append(HashRemove(h, k), <<k, v>>)

SingletonHash(k, v) == YHash(HashInsert(<<>>, k, v))

\* ------------------------------------------------------ Serializer methods
\* A method that returns Result<()> is an operator giving <<ret, doc'>>: what it
\* returns and the result slot after it.  A method on a builder gives
\* <<ret, state'>>.  Where a method binds the result of a call and then looks
\* at it (try!, match), the second half is an operator of its own that takes
\* the result as a parameter.

RECURSIVE Serialize(_, _)
RECURSIVE ToYaml(_)
RECURSIVE SeqRun(_, _)
RECURSIVE MapRun(_, _)
RECURSIVE StructRun(_, _)

SerializeBool(doc, v) == <<Ok, YBoolean(v)>>

SerializeI64(doc, bits) == <<Ok, YInteger(bits)>>

SerializeInt(doc, ty, bits) == SerializeI64(doc, CastI64(ty, bits))

SerializeStr(doc, value) == <<Ok, YString(value)>>

SerializeUnit(doc) == <<Ok, YNull>>

SerializeUnitStruct(doc, name) == <<Ok, YNull>>

SerializeUnitVariant(doc, variant) == <<Ok, YString(variant)>>

SerializeNewtypeStruct(doc, value) == Serialize(value, doc)

\* A variant whose payload is stored bare, without the singleton Hash (not the code).
WrapVariantBare(doc, k, x) ==
    IF ~IsOk(k) THEN <<k[1], doc>>
    ELSE IF ~IsOk(x) THEN <<x[1], doc>>
    ELSE <<Ok, x[2]>>

\* singleton_hash(try!(to_yaml(variant)), try!(to_yaml(value))): k and x are the
\* two to_yaml results; doc is the result slot left behind when one is an error.
WrapVariant(doc, k, x) ==
    IF ~IsOk(k) THEN <<k[1], doc>>
    ELSE IF ~IsOk(x) THEN <<x[1], doc>>
    ELSE <<Ok, SingletonHash(k[2], x[2])>>

SerializeNewtypeVariant(doc, variant, value) ==
    WrapVariant(doc, ToYaml(VStr(variant)), ToYaml(value))

SerializeNone(doc) == SerializeUnit(doc)

\* A wrapper that leaves a trace: Some(x) as a one-element sequence (not the code).
SerializeSomeWrapped(doc, value) == Serialize(VSeq(<<value>>), doc)

SerializeSome(doc, value) == Serialize(value, doc)

SerializeSeq == <<>>

\* state.push(try!(...)): r is the to_yaml result.
SeqPush(state, r) ==
    IF IsOk(r) THEN <<Ok, Append(state, r[2])>> ELSE <<r[1], state>>

SerializeSeqElt(state, elem) == SeqPush(state, ToYaml(elem))

SerializeSeqEnd(doc, state) == <<Ok, YArray(state)>>

SerializeTupleVariant(variant) == <<variant, SerializeSeq>>

\* The builder `state.1` of a variant builder after a call on it, under its tag.
Retag(variant, r) == <<r[1], <<variant, r[2]>>>>

SerializeTupleVariantElt(state, v) == Retag(state[1], SerializeSeqElt(state[2], v))

\* try!(self.serialize_*_end(state.1)), then the slot's content is wrapped:
\* singleton_hash(try!(to_yaml(state.0)), mem::replace(&mut self.doc, Null)).
\* e is the inner end call's result, k the variant name's to_yaml result.
WrapDoc(e, k) == WrapVariant(e[2], k, e)

SerializeTupleVariantEnd(doc, state) ==
    WrapDoc(SerializeSeqEnd(doc, state[2]), ToYaml(VStr(state[1])))

SerializeMap == <<<<>>, <<>>>>

\* A key slot that refuses a second pending key (not the code).
SetKeyStrict(state, r) ==
    IF ~IsOk(r) THEN <<r[1], state>>
    ELSE IF state[1] # <<>> THEN <<ErrNoKey, state>>
    ELSE <<Ok, <<<<r[2]>>, state[2]>>>>

\* state.0 = Some(try!(...)): r is the key's to_yaml result.
SetKey(state, r) ==
    IF IsOk(r) THEN <<Ok, <<<<r[2]>>, state[2]>>>> ELSE <<r[1], state>>

SerializeMapKey(state, key) == SetKey(state, ToYaml(key))

\* An insert with key and value swapped (not the code).
InsertPairSwapped(state, r) ==
    IF IsOk(r) THEN <<Ok, <<<<>>, HashInsert(state[2], r[2], state[1][1])>>>>
    ELSE <<r[1], <<<<>>, state[2]>>>>

\* An insert that keeps the pair a key already has (not the code).
InsertPairKeepFirst(state, r) ==
    IF IsOk(r)
    THEN <<Ok, <<<<>>, IF HasKey(state[2], state[1][1]) THEN state[2]
                      ELSE HashInsert(state[2], state[1][1], r[2])>>>>
    ELSE <<r[1], <<<<>>, state[2]>>>>

\* Some(key) => state.1.insert(key, try!(...)): r is the value's to_yaml result;
\* state.0.take() has emptied the pending-key slot before the value is encoded.
InsertPair(state, r) ==
    IF IsOk(r) THEN <<Ok, <<<<>>, HashInsert(state[2], state[1][1], r[2])>>>>
    ELSE <<r[1], <<<<>>, state[2]>>>>

\* A value call that commits under a Null key when no key is pending (not the code).
SerializeMapValueLenient(state, value) ==
    IF state[1] = <<>> THEN InsertPair(<<<<YNull>>, state[2]>>, ToYaml(value))
    ELSE InsertPair(state, ToYaml(value))

SerializeMapValue(state, value) ==
    IF state[1] = <<>> THEN <<ErrNoKey, state>>
    ELSE InsertPair(state, ToYaml(value))

\* An end that commits a pending key with a Null value (not the code).
SerializeMapEndFlush(doc, state) ==
    <<Ok, YHash(IF state[1] = <<>> THEN state[2]
                ELSE HashInsert(state[2], state[1][1], YNull))>>

SerializeMapEnd(doc, state) == <<Ok, YHash(state[2])>>

SerializeStruct == SerializeMap

\* try!(self.serialize_map_key(state, key)); self.serialize_map_value(state, value):
\* k is the key call's result.
ThenValue(k, value) == IF k[1] # Ok THEN k ELSE SerializeMapValue(k[2], value)

SerializeStructElt(state, key, value) ==
    ThenValue(SerializeMapKey(state, VStr(key)), value)

SerializeStructEnd(doc, state) == SerializeMapEnd(doc, state)

SerializeStructVariant(variant) == <<variant, SerializeMap>>

SerializeStructVariantElt(state, field, v) ==
    Retag(state[1], ThenValue(SerializeMapKey(state[2], VStr(field)), v))

SerializeStructVariantEnd(doc, state) ==
    WrapDoc(SerializeMapEnd(doc, state[2]), ToYaml(VStr(state[1])))

\* The rest of a loop of calls, each under try!: r is the call just made.
SeqNext(r, rest) == IF r[1] # Ok THEN r ELSE SeqRun(r[2], rest)

MapNext(r, rest) == IF r[1] # Ok THEN r ELSE MapRun(r[2], rest)

StructNext(r, rest) == IF r[1] # Ok THEN r ELSE StructRun(r[2], rest)

\* for elem in elems { try!(serialize_seq_elt(&mut state, elem)) }
SeqRun(state, elems) ==
    IF elems = <<>> THEN <<Ok, state>>
    ELSE SeqNext(SerializeSeqElt(state, Head(elems)), Tail(elems))

\* The key and value calls of a map-like value, each under try!.
MapRun(state, events) ==
    IF events = <<>> THEN <<Ok, state>>
    ELSE MapNext(IF Head(events)[1] = "key"
                 THEN SerializeMapKey(state, Head(events)[2])
                 ELSE SerializeMapValue(state, Head(events)[2]),
                 Tail(events))

StructRun(state, fields) ==
    IF fields = <<>> THEN <<Ok, state>>
    ELSE StructNext(SerializeStructElt(state, Head(fields)[1], Head(fields)[2]),
                    Tail(fields))

\* The end call of a container value, reached only when every call before it
\* returned Ok: r is the outcome of the loop of calls.
SeqFinish(doc, r) == IF r[1] # Ok THEN <<r[1], doc>> ELSE SerializeSeqEnd(doc, r[2])

TupleVariantFinish(doc, variant, r) ==
    IF r[1] # Ok THEN <<r[1], doc>> ELSE SerializeTupleVariantEnd(doc, <<variant, r[2]>>)

MapFinish(doc, r) == IF r[1] # Ok THEN <<r[1], doc>> ELSE SerializeMapEnd(doc, r[2])

StructFinish(doc, r) == IF r[1] # Ok THEN <<r[1], doc>> ELSE SerializeStructEnd(doc, r[2])

StructVariantFinish(doc, variant, r) ==
    IF r[1] # Ok THEN <<r[1], doc>> ELSE SerializeStructVariantEnd(doc, <<variant, r[2]>>)

\* serialize_bytes: a sequence of the bytes, each serialized as a u8.
SerializeBytes(doc, value) ==
    SeqFinish(doc, SeqRun(SerializeSeq,
                          [i \in 1..Len(value) |-> VInt("u8", Small(value[i]))]))

\* value.serialize(self): the calls the value's Serialize implementation makes on
\* a Serializer whose result slot holds doc.
Serialize(v, doc) ==
    CASE v[1] = "bool" -> SerializeBool(doc, v[2])
      [] v[1] = "int" -> SerializeInt(doc, v[2], v[3])
      [] v[1] = "str" -> SerializeStr(doc, v[2])
      [] v[1] = "unit" -> SerializeUnit(doc)
      [] v[1] = "unit_struct" -> SerializeUnitStruct(doc, v[2])
      [] v[1] = "unit_variant" -> SerializeUnitVariant(doc, v[2])
      [] v[1] = "none" -> SerializeNone(doc)
      [] v[1] = "some" -> SerializeSome(doc, v[2])
      [] v[1] = "newtype_struct" -> SerializeNewtypeStruct(doc, v[2])
      [] v[1] = "newtype_variant" -> SerializeNewtypeVariant(doc, v[2], v[3])
      [] v[1] = "bytes" -> SerializeBytes(doc, v[2])
      [] v[1] = "seq" -> SeqFinish(doc, SeqRun(SerializeSeq, v[2]))
      [] v[1] = "tuple_variant" ->
           TupleVariantFinish(doc, v[2], SeqRun(SerializeTupleVariant(v[2])[2], v[3]))
      [] v[1] = "map" -> MapFinish(doc, MapRun(SerializeMap, v[2]))
      [] v[1] = "struct" -> StructFinish(doc, StructRun(SerializeStruct, v[2]))
      [] OTHER ->
           StructVariantFinish(doc, v[2], StructRun(SerializeStructVariant(v[2])[2], v[3]))

\* A take that turns an error into a Null tree (not the code).
TakeSwallow(r) == <<Ok, IF r[1] = Ok THEN r[2] ELSE YNull>>

\* try!(elem.serialize(&mut ser)); Ok(ser.take()): r is what serialize returned
\* and left in the result slot.  An error carries no tree.
Take(r) == IF r[1] = Ok THEN <<Ok, r[2]>> ELSE <<r[1]>>

\* to_yaml: a fresh Serializer (doc Null), the value's serialize(), then take().
ToYaml(elem) == Take(Serialize(elem, YNull))

\* ------------------------------------------------------- external renderer
\* Text is a sequence of bytes; the renderer hands the adapter one chunk per
\* write_str call.

StrBytes(s) ==
    CASE s = "a" -> <<97>>
      [] s = "b" -> <<98>>
      [] s = "z" -> <<122>>
      [] s = "V" -> <<86>>
      [] s = "W" -> <<87>>
      [] OTHER -> <<63>>

RECURSIVE DecText(_)
DecText(n) == IF n < 10 THEN <<48 + n>> ELSE DecText(n \div 10) \o <<48 + (n % 10)>>

IntText(bits) ==
    IF bits[2] = 0 /\ bits[3] = 0 /\ bits[4] = 0 THEN DecText(bits[1]) ELSE <<35>>

RECURSIVE RenderNode(_)
RECURSIVE RenderItems(_)
RECURSIVE RenderPairs(_)

RenderItems(a) ==
    IF a = <<>> THEN <<>>
    ELSE <<<<45, 32>>>> \o RenderNode(Head(a)) \o <<<<10>>>> \o RenderItems(Tail(a))

RenderPairs(h) ==
    IF h = <<>> THEN <<>>
    ELSE RenderNode(Head(h)[1]) \o <<<<58, 32>>>> \o RenderNode(Head(h)[2])
         \o <<<<10>>>> \o RenderPairs(Tail(h))

RenderNode(y) ==
    CASE y[1] = "Null" -> <<<<126>>>>
      [] y[1] = "Boolean" -> IF y[2] THEN <<<<116, 114, 117, 101>>>>
                             ELSE <<<<102, 97, 108, 115, 101>>>>
      [] y[1] = "Integer" -> <<IntText(y[2])>>
      [] y[1] = "String" -> <<StrBytes(y[2])>>
      [] y[1] = "Array" -> RenderItems(y[2])
      [] OTHER -> RenderPairs(y[2])

\* YamlEmitter::dump: the document marker, then the tree.
Dump(doc) == <<<<45, 45, 45, 10>>>> \o RenderNode(doc)

RECURSIVE Flatten(_)
Flatten(chunks) == IF chunks = <<>> THEN <<>> ELSE Head(chunks) \o Flatten(Tail(chunks))

\* String::from_utf8 on the bytes the renderer produces (all of them ASCII).
Utf8Valid(bytes) == \A i \in 1..Len(bytes) : bytes[i] < 128

ErrEmit == "Emit(fmt::Error)"

ErrFromUtf8 == "FromUtf8"

\* ------------------------------------------------------------ the inputs

I1 == VInt("i64", Small(1))

I2 == VInt("i64", Small(2))

\* A Serialize implementation that opens a map and sends a value with no key.
Bad == VMap(<<<<"value", I1>>>>)

Variants == {"V", "W"}

Fields == {"a", "b"}

KeyVals == {VStr("z"), VStr("a"), VUnit, VNone, Bad}

ValVals == {I1, I2, Bad}

SeqElems == {I1, VStr("a"), VSome(I1), VSeq(<<Bad>>)}

Leaves == {VBool(TRUE), VBool(FALSE), I1, VInt("u8", Small(2^8 - 1)), VStr("a"),
           VUnit, VNone, VUnitStruct("U"), VUnitVariant("V")}

Nested(x) ==
    {VSome(x), VNewtypeStruct(x), VNewtypeVariant("V", x), VSeq(<<I1, x>>),
     VTupleVariant("V", <<x, I2>>), VMap(<<<<"key", x>>, <<"value", I1>>>>),
     VMap(<<<<"key", VStr("z")>>, <<"value", x>>, <<"key", VStr("a")>>, <<"value", I2>>>>),
     VStruct(<<<<"a", I1>>, <<"b", x>>>>), VStructVariant("W", <<<<"a", x>>>>)}

Level1 == UNION {Nested(x) : x \in {I1, VStr("a"), VNone, Bad}}

Level2 == UNION {Nested(x) : x \in {VSome(I1), VSome(VNone), VSeq(<<I1, Bad>>),
                                    VMap(<<<<"key", Bad>>, <<"value", I1>>>>)}}

Vals == Leaves \cup {Bad, VBytes(<<65, 0, 255>>)} \cup Level1 \cup Level2

\* The values handed to the entry points.
WVals == {I1, VStr("a"), VSeq(<<I1, VStr("a")>>), Bad, VSome(VSeq(<<I1, Bad>>)),
          VMap(<<<<"key", VStr("z")>>, <<"value", VNewtypeVariant("V", Bad)>>>>)}

Entries == {"to_writer", "to_vec", "to_string"}

\* ------------------------------------------------------------- the state

VARIABLES
    pc,       \* the Serializer's life: "fresh" (new), "open" (a builder is open), "done"
    doc,      \* Serializer.doc, the result slot
    builder,  \* the builder the caller holds: <<kind, state>>, kind "none" when none
    ret,      \* what the last Serializer call returned: Ok or the error
    last,     \* the last Serializer call: <<method, arguments>>
    pre,      \* the builder before the last call
    log,      \* the calls made on the open builder, in order, each with its return
    wpc,      \* the entry point's position: "idle", "dump" (rendering), "done"
    entry,    \* the entry point called
    wval,     \* the value handed to it
    chunks,   \* what the renderer has still to write, one chunk per write_str
    sink,     \* the bytes the byte sink has received
    offered,  \* the bytes of the write_str calls that returned success
    wret      \* what the entry point returned

evars == <<pc, doc, builder, ret, last, pre, log>>

wvars == <<wpc, entry, wval, chunks, sink, offered, wret>>

vars == <<pc, doc, builder, ret, last, pre, log, wpc, entry, wval, chunks, sink, offered, wret>>

NoBuilder == <<"none", <<>>>>

Init ==
    /\ pc = "fresh"
    /\ doc = YNull
    /\ builder = NoBuilder
    /\ ret = Ok
    /\ last = <<"new", <<>>>>
    /\ pre = NoBuilder
    /\ log = <<>>
    /\ wpc = "idle"
    /\ entry = "to_writer"
    /\ wval = I1
    /\ chunks = <<>>
    /\ sink = <<>>
    /\ offered = <<>>
    /\ wret = Ok

\* ----------------------------------------------- calls on a fresh Serializer

\* The methods that neither open nor use a builder.
ScalarOps ==
    {"serialize_bool", "serialize_isize", "serialize_i8", "serialize_i16",
     "serialize_i32", "serialize_i64", "serialize_usize", "serialize_u8",
     "serialize_u16", "serialize_u32", "serialize_u64", "serialize_str",
     "serialize_bytes", "serialize_unit", "serialize_unit_struct",
     "serialize_unit_variant", "serialize_newtype_struct",
     "serialize_newtype_variant", "serialize_none", "serialize_some"}

\* A call that opens no builder: r is <<what it returns, the result slot after>>.
Call(op, args, r) ==
    /\ wpc = "idle"
    /\ pc' = "done"
    /\ ret' = r[1]
    /\ doc' = r[2]
    /\ last' = <<op, args>>
    /\ UNCHANGED <<builder, pre, log>>
    /\ UNCHANGED wvars

\* Such a call on a fresh Serializer.
OneShot(op, args, r) == pc = "fresh" /\ Call(op, args, r)

\* Such a call on a fresh Serializer, or on one that has only seen such calls
\* and holds an earlier result in its slot.
Overwrite(op, args, r) ==
    /\ pc = "fresh" \/ (pc = "done" /\ last[1] \in ScalarOps)
    /\ Call(op, args, r)

\* A call that returns a builder.
Open(op, args, kind, state) ==
    /\ pc = "fresh"
    /\ wpc = "idle"
    /\ pc' = "open"
    /\ builder' = <<kind, state>>
    /\ pre' = builder
    /\ log' = <<>>
    /\ ret' = Ok
    /\ last' = <<op, args>>
    /\ UNCHANGED doc
    /\ UNCHANGED wvars

\* An element, key, value or field call on the open builder: r is <<what it
\* returns, the builder's state after>>.
Event(op, args, kinds, r) ==
    /\ pc = "open"
    /\ builder[1] \in kinds
    /\ Len(log) < MaxEvents
    /\ builder' = <<builder[1], r[2]>>
    /\ pre' = builder
    /\ log' = Append(log, <<op, args, r[1]>>)
    /\ ret' = r[1]
    /\ last' = <<op, args>>
    /\ UNCHANGED <<pc, doc>>
    /\ UNCHANGED wvars

\* The call that consumes the builder.
End(op, kinds, r) ==
    /\ pc = "open"
    /\ builder[1] \in kinds
    /\ pc' = "done"
    /\ builder' = NoBuilder
    /\ pre' = builder
    /\ doc' = r[2]
    /\ ret' = r[1]
    /\ last' = <<op, <<>>>>
    /\ UNCHANGED log
    /\ UNCHANGED wvars

DoSerializeBool == \E v \in BOOLEAN : Overwrite("serialize_bool", <<v>>, SerializeBool(doc, v))

IntCall(op, ty) == \E b \in IntInputs(ty) : OneShot(op, <<ty, b>>, SerializeInt(doc, ty, b))

DoSerializeIsize == IntCall("serialize_isize", "isize")

DoSerializeI8 == IntCall("serialize_i8", "i8")

DoSerializeI16 == IntCall("serialize_i16", "i16")

DoSerializeI32 == IntCall("serialize_i32", "i32")

DoSerializeI64 == IntCall("serialize_i64", "i64")

DoSerializeUsize == IntCall("serialize_usize", "usize")

DoSerializeU8 == IntCall("serialize_u8", "u8")

DoSerializeU16 == IntCall("serialize_u16", "u16")

DoSerializeU32 == IntCall("serialize_u32", "u32")

DoSerializeU64 == IntCall("serialize_u64", "u64")

DoSerializeStr == \E s \in {"a", "z"} : OneShot("serialize_str", <<s>>, SerializeStr(doc, s))

DoSerializeBytes ==
    \E b \in {<<>>, <<65, 0, 255>>} : OneShot("serialize_bytes", <<b>>, SerializeBytes(doc, b))

DoSerializeUnit == Overwrite("serialize_unit", <<>>, SerializeUnit(doc))

DoSerializeUnitStruct == Overwrite("serialize_unit_struct", <<"U">>, SerializeUnitStruct(doc, "U"))

DoSerializeUnitVariant ==
    \E v \in Variants : OneShot("serialize_unit_variant", <<v>>, SerializeUnitVariant(doc, v))

DoSerializeNewtypeStruct ==
    \E x \in Vals : OneShot("serialize_newtype_struct", <<x>>, SerializeNewtypeStruct(doc, x))

DoSerializeNewtypeVariant ==
    \E v \in Variants, x \in Vals :
        OneShot("serialize_newtype_variant", <<v, x>>, SerializeNewtypeVariant(doc, v, x))

DoSerializeNone == Overwrite("serialize_none", <<>>, SerializeNone(doc))

DoSerializeSome == \E x \in Vals : OneShot("serialize_some", <<x>>, SerializeSome(doc, x))

\* ------------------------------------------------------------- sequences

DoSerializeSeq == Open("serialize_seq", <<>>, "seq", SerializeSeq)

DoSerializeSeqElt ==
    \E x \in SeqElems :
        Event("serialize_seq_elt", <<x>>, {"seq"}, SerializeSeqElt(builder[2], x))

DoSerializeSeqEnd == End("serialize_seq_end", {"seq"}, SerializeSeqEnd(doc, builder[2]))

DoSerializeTupleVariant ==
    \E v \in Variants : Open("serialize_tuple_variant", <<v>>, "tv", SerializeTupleVariant(v))

DoSerializeTupleVariantElt ==
    \E x \in SeqElems :
        Event("serialize_tuple_variant_elt", <<x>>, {"tv"},
              SerializeTupleVariantElt(builder[2], x))

DoSerializeTupleVariantEnd ==
    End("serialize_tuple_variant_end", {"tv"}, SerializeTupleVariantEnd(doc, builder[2]))

\* ------------------------------------------------------------------ maps

DoSerializeMap == Open("serialize_map", <<>>, "map", SerializeMap)

DoSerializeMapKey ==
    \E k \in KeyVals :
        Event("serialize_map_key", <<k>>, {"map"}, SerializeMapKey(builder[2], k))

DoSerializeMapValue ==
    \E v \in ValVals :
        Event("serialize_map_value", <<v>>, {"map"}, SerializeMapValue(builder[2], v))

DoSerializeMapEnd == End("serialize_map_end", {"map"}, SerializeMapEnd(doc, builder[2]))

DoSerializeStruct == Open("serialize_struct", <<>>, "struct", SerializeStruct)

DoSerializeStructElt ==
    \E f \in Fields, v \in ValVals :
        Event("serialize_struct_elt", <<f, v>>, {"struct"},
              SerializeStructElt(builder[2], f, v))

DoSerializeStructEnd == End("serialize_struct_end", {"struct"}, SerializeStructEnd(doc, builder[2]))

DoSerializeStructVariant ==
    \E v \in Variants : Open("serialize_struct_variant", <<v>>, "sv", SerializeStructVariant(v))

DoSerializeStructVariantElt ==
    \E f \in Fields, v \in ValVals :
        Event("serialize_struct_variant_elt", <<f, v>>, {"sv"},
              SerializeStructVariantElt(builder[2], f, v))

DoSerializeStructVariantEnd ==
    End("serialize_struct_variant_end", {"sv"}, SerializeStructVariantEnd(doc, builder[2]))

\* Serializer::take then Serializer::new: the next value gets a fresh Serializer.
TakeAndNew ==
    /\ pc = "done"
    /\ pc' = "fresh"
    /\ doc' = YNull
    /\ builder' = NoBuilder
    /\ pre' = NoBuilder
    /\ log' = <<>>
    /\ ret' = Ok
    /\ last' = <<"new", <<>>>>
    /\ UNCHANGED wvars

\* --------------------------------------------------------- entry points

\* What a byte sink's write(buf) may answer for a non-empty buf: Ok(n) with
\* 1 <= n <= buf.len() (a sink that makes progress may still take only a
\* prefix), or an error.  A Vec<u8> (to_vec, to_string) always takes the whole
\* buffer.
WriteOutcomes(e, s) ==
    IF e = "to_writer" THEN {<<"Ok", n>> : n \in 1..Len(s)} \cup {<<"Err">>}
    ELSE {<<"Ok", Len(s)>>}

\* FmtToIoWriter::write_str: an error of the sink becomes fmt::Error; the count a
\* successful write reports is not looked at.
FmtWriteStr(out) == IF out[1] = "Err" THEN ErrEmit ELSE Ok

\* to_writer up to the renderer: to_yaml(value) under try!, then the dump starts.
StartEntry ==
    \E e \in Entries, v \in WVals :
        LET r == ToYaml(v)
        IN  /\ wpc = "idle"
            /\ pc = "fresh"
            /\ entry' = e
            /\ wval' = v
            /\ sink' = <<>>
            /\ offered' = <<>>
            /\ IF IsOk(r)
               THEN /\ wpc' = "dump"
                    /\ chunks' = Dump(r[2])
                    /\ wret' = Ok
               ELSE /\ wpc' = "done"
                    /\ chunks' = <<>>
                    /\ wret' = r[1]
            /\ UNCHANGED evars

\* One write_str call of the renderer, through the adapter, into the sink.
WriteStr ==
    /\ wpc = "dump"
    /\ chunks # <<>>
    /\ \E out \in WriteOutcomes(entry, Head(chunks)) :
          LET w == FmtWriteStr(out)
          IN  IF w = Ok
              THEN /\ sink' = sink \o SubSeq(Head(chunks), 1, out[2])
                   /\ offered' = offered \o Head(chunks)
                   /\ chunks' = Tail(chunks)
                   /\ UNCHANGED <<wpc, wret>>
              ELSE /\ wpc' = "done"
                   /\ wret' = w
                   /\ chunks' = <<>>
                   /\ UNCHANGED <<sink, offered>>
    /\ UNCHANGED <<entry, wval>>
    /\ UNCHANGED evars

\* The dump is over: to_writer and to_vec return; to_string validates the bytes.
FinishEntry ==
    /\ wpc = "dump"
    /\ chunks = <<>>
    /\ wpc' = "done"
    /\ wret' = IF entry = "to_string" /\ ~Utf8Valid(sink) THEN ErrFromUtf8 ELSE Ok
    /\ UNCHANGED <<entry, wval, chunks, sink, offered>>
    /\ UNCHANGED evars

\* The caller is back; the next call starts from scratch.
ReturnEntry ==
    /\ wpc = "done"
    /\ wpc' = "idle"
    /\ entry' = "to_writer"
    /\ wval' = I1
    /\ chunks' = <<>>
    /\ sink' = <<>>
    /\ offered' = <<>>
    /\ wret' = Ok
    /\ UNCHANGED evars

Next ==
    \/ DoSerializeBool
    \/ DoSerializeIsize
    \/ DoSerializeI8
    \/ DoSerializeI16
    \/ DoSerializeI32
    \/ DoSerializeI64
    \/ DoSerializeUsize
    \/ DoSerializeU8
    \/ DoSerializeU16
    \/ DoSerializeU32
    \/ DoSerializeU64
    \/ DoSerializeStr
    \/ DoSerializeBytes
    \/ DoSerializeUnit
    \/ DoSerializeUnitStruct
    \/ DoSerializeUnitVariant
    \/ DoSerializeNewtypeStruct
    \/ DoSerializeNewtypeVariant
    \/ DoSerializeNone
    \/ DoSerializeSome
    \/ DoSerializeSeq
    \/ DoSerializeSeqElt
    \/ DoSerializeSeqEnd
    \/ DoSerializeTupleVariant
    \/ DoSerializeTupleVariantElt
    \/ DoSerializeTupleVariantEnd
    \/ DoSerializeMap
    \/ DoSerializeMapKey
    \/ DoSerializeMapValue
    \/ DoSerializeMapEnd
    \/ DoSerializeStruct
    \/ DoSerializeStructElt
    \/ DoSerializeStructEnd
    \/ DoSerializeStructVariant
    \/ DoSerializeStructVariantElt
    \/ DoSerializeStructVariantEnd
    \/ TakeAndNew
    \/ StartEntry
    \/ WriteStr
    \/ FinishEntry
    \/ ReturnEntry

Spec == Init /\ [][Next]_vars

\* ------------------------------------------------------------- the claims

\* The k-th argument of the i-th call on the open builder, and what it returned.
Arg(i, k) == log[i][2][k]

Ret(i) == log[i][3]

Encodable(x) == IsOk(ToYaml(x))

Enc(x) == ToYaml(x)[2]

\* The calls on the builder were key, value, key, value, ...
Alternates ==
    /\ Len(log) % 2 = 0
    /\ \A i \in 1..Len(log) :
          log[i][1] = IF i % 2 = 1 THEN "serialize_map_key" ELSE "serialize_map_value"

NPairs == Len(log) \div 2

KeyAt(i) == Arg(2 * i - 1, 1)

ValAt(i) == Arg(2 * i, 1)

AllEncodable == \A i \in 1..Len(log) : Encodable(Arg(i, 1))

\* The submitted pairs, encoded, in submission order.
SubmittedPairs == [i \in 1..NPairs |-> <<Enc(KeyAt(i)), Enc(ValAt(i))>>]

\* C1: serialize_map_value on a Map Builder whose pending-key slot is empty
\* returns Error::Custom and leaves the builder as it was; and of two value calls
\* in a row, the second fails.
C1_ValueWithoutKeyFails ==
    /\ (last[1] = "serialize_map_value" /\ pre[2][1] = <<>>)
          => (ret = ErrNoKey /\ builder = pre)
    /\ \A i \in 1..(Len(log) - 1) :
          (log[i][1] = "serialize_map_value" /\ log[i + 1][1] = "serialize_map_value")
             => Ret(i + 1) = ErrNoKey

\* A value call with no pending key, right after a value call that committed a pair.
C1_Witness ==
    /\ last[1] = "serialize_map_value"
    /\ pre[2][1] = <<>>
    /\ pre[2][2] # <<>>
    /\ Len(log) >= 2
    /\ log[Len(log) - 1][1] = "serialize_map_value"
    /\ Ret(Len(log) - 1) = Ok
    /\ ret = ErrNoKey

\* C2 as the claim states it: a key submitted while a key is pending is an error.
C2_SecondKeyIsError ==
    (last[1] = "serialize_map_key" /\ pre[2][1] # <<>>) => ret # Ok

\* C2, amended: a key submitted while a key is pending is accepted whenever the
\* key itself encodes; the pending key is replaced by the new key's encoding and
\* the committed pairs stay.  When the key fails to encode, that error is
\* returned and the builder is left as it was.
C2_SecondKeyReplaces ==
    (last[1] = "serialize_map_key" /\ pre[2][1] # <<>>)
       => IF Encodable(last[2][1])
          THEN ret = Ok /\ builder[2] = <<<<Enc(last[2][1])>>, pre[2][2]>>
          ELSE ret = ToYaml(last[2][1])[1] /\ builder = pre

\* A second key, different from the pending one, accepted over committed pairs.
C2_Witness ==
    /\ last[1] = "serialize_map_key"
    /\ pre[2][1] # <<>>
    /\ pre[2][2] # <<>>
    /\ ret = Ok
    /\ builder[2][1] # pre[2][1]
    /\ builder[2][2] = pre[2][2]

\* The closed map of a run of alternating key and value calls.
ClosedAlternating ==
    /\ last[1] = "serialize_map_end"
    /\ Alternates
    /\ AllEncodable

\* C3 as the claim states it: alternating calls with pairwise distinct keys all
\* succeed and the Hash holds the submitted pairs in submission order.
C3_DistinctKeysInOrder ==
    (ClosedAlternating /\ \A i, j \in 1..NPairs : i # j => KeyAt(i) # KeyAt(j))
       => /\ \A i \in 1..Len(log) : Ret(i) = Ok
          /\ ret = Ok
          /\ doc = YHash(SubmittedPairs)

\* C3, amended: alternating calls whose keys have pairwise distinct encodings
\* all succeed and the Hash holds the submitted pairs in submission order.
C3_DistinctEncodedKeysInOrder ==
    (ClosedAlternating /\ \A i, j \in 1..NPairs : i # j => Enc(KeyAt(i)) # Enc(KeyAt(j)))
       => /\ \A i \in 1..Len(log) : Ret(i) = Ok
          /\ ret = Ok
          /\ doc = YHash(SubmittedPairs)

\* Two pairs closed with "z" before "a": submission order, not key order.
C3_Witness ==
    /\ ClosedAlternating
    /\ NPairs = 2
    /\ KeyAt(1) = VStr("z")
    /\ KeyAt(2) = VStr("a")
    /\ doc = YHash(<<<<YString("z"), Enc(ValAt(1))>>, <<YString("a"), Enc(ValAt(2))>>>>)

\* C4 as the claim states it: with a key submitted twice, the Hash still holds
\* every submitted pair at its submission position.
C4_DuplicateKeysKept ==
    (ClosedAlternating /\ \E i, j \in 1..NPairs : i # j /\ KeyAt(i) = KeyAt(j))
       => doc = YHash(SubmittedPairs)

\* The last submission of the key of the i-th pair.
LastOf(i) ==
    CHOOSE j \in 1..NPairs :
        /\ Enc(KeyAt(j)) = Enc(KeyAt(i))
        /\ \A m \in 1..NPairs : Enc(KeyAt(m)) = Enc(KeyAt(i)) => m <= j

\* C4, amended: key uniqueness is enforced by the Hash: when a key is submitted
\* twice, the closed Hash holds exactly one pair with that key, and its value is
\* the one submitted last; every submitted key has its pair.
C4_DuplicateKeyLastWins ==
    ClosedAlternating
       => /\ doc[1] = "Hash"
          /\ \A i \in 1..NPairs :
                /\ Cardinality({p \in 1..Len(doc[2]) : doc[2][p][1] = Enc(KeyAt(i))}) = 1
                /\ \A p \in 1..Len(doc[2]) :
                      doc[2][p][1] = Enc(KeyAt(i)) => doc[2][p][2] = Enc(ValAt(LastOf(i)))
          /\ \A p \in 1..Len(doc[2]) : \E i \in 1..NPairs : doc[2][p][1] = Enc(KeyAt(i))

\* The same key submitted twice with different values: one pair, the second value.
C4_Witness ==
    /\ ClosedAlternating
    /\ NPairs = 2
    /\ KeyAt(1) = KeyAt(2)
    /\ ValAt(1) # ValAt(2)
    /\ doc = YHash(<<<<Enc(KeyAt(2)), Enc(ValAt(2))>>>>)

\* The fields of a struct variant's calls have pairwise different names.
DistinctFields == \A i, j \in 1..Len(log) : i # j => Arg(i, 1) # Arg(j, 1)

\* C5: a payload-carrying variant V is a Hash with the one pair keyed String(V):
\* the encoded payload of a newtype variant, the Array of the encoded elements of
\* a tuple variant in submission order, the Hash of the encoded fields of a struct
\* variant in declaration order.
C5_VariantIsSingletonHash ==
    /\ (last[1] = "serialize_newtype_variant" /\ Encodable(last[2][2]))
          => /\ ret = Ok
             /\ doc = YHash(<<<<YString(last[2][1]), Enc(last[2][2])>>>>)
    /\ (last[1] = "serialize_tuple_variant_end" /\ AllEncodable)
          => /\ ret = Ok
             /\ doc = YHash(<<<<YString(pre[2][1]),
                               YArray([i \in 1..Len(log) |-> Enc(Arg(i, 1))])>>>>)
    /\ (last[1] = "serialize_struct_variant_end" /\ DistinctFields
           /\ \A i \in 1..Len(log) : Encodable(Arg(i, 2)))
          => /\ ret = Ok
             /\ doc = YHash(<<<<YString(pre[2][1]),
                               YHash([i \in 1..Len(log) |->
                                         <<YString(Arg(i, 1)), Enc(Arg(i, 2))>>])>>>>)

\* A closed tuple variant "W" of two different elements.
C5_Witness ==
    /\ last[1] = "serialize_tuple_variant_end"
    /\ pre[2][1] = "W"
    /\ AllEncodable
    /\ Len(log) = 2
    /\ Enc(Arg(1, 1)) # Enc(Arg(2, 1))
    /\ doc = YHash(<<<<YString("W"), YArray(<<Enc(Arg(1, 1)), Enc(Arg(2, 1))>>)>>>>)

\* The 64-bit two's complement of a pattern: the magnitude of a negative i64.
Negate4(b) ==
    LET c1 == IF b[1] = 0 THEN 1 ELSE 0
        c2 == IF c1 = 1 /\ b[2] = 0 THEN 1 ELSE 0
        c3 == IF c2 = 1 /\ b[3] = 0 THEN 1 ELSE 0
    IN  Bits((Limb - b[1]) % Limb, (LimbMax - b[2] + c1) % Limb,
             (LimbMax - b[3] + c2) % Limb, (LimbMax - b[4] + c3) % Limb)

\* 2^w - b for a negative w-bit pattern b.
MagnitudeOf(w, b) ==
    CASE w = 8 -> Small(2^8 - b[1])
      [] w = 16 -> Small(Limb - b[1])
      [] w = 32 -> IF b[1] = 0 THEN Bits(0, Limb - b[2], 0, 0)
                   ELSE Bits(Limb - b[1], LimbMax - b[2], 0, 0)
      [] OTHER -> Negate4(b)

\* The number a typed input stands for: <<negative, magnitude>>.
NumberIn(ty, b) ==
    IF Signed(ty) /\ TopBit(Width(ty), b) THEN <<TRUE, MagnitudeOf(Width(ty), b)>>
    ELSE <<FALSE, b>>

\* The number an i64 pattern stands for.
NumberOut(bits) ==
    IF TopBit(64, bits) THEN <<TRUE, MagnitudeOf(64, bits)>> ELSE <<FALSE, bits>>

\* a + b over four limbs, with the carry out as the fifth element.
AddCarry(a, b) ==
    LET s1 == a[1] + b[1]
        s2 == a[2] + b[2] + s1 \div Limb
        s3 == a[3] + b[3] + s2 \div Limb
        s4 == a[4] + b[4] + s3 \div Limb
    IN  <<s1 % Limb, s2 % Limb, s3 % Limb, s4 % Limb, s4 \div Limb>>

IntOps == {"serialize_isize", "serialize_i8", "serialize_i16", "serialize_i32",
           "serialize_i64", "serialize_usize", "serialize_u8", "serialize_u16",
           "serialize_u32", "serialize_u64"}

\* C6: an integer call of any width succeeds and stores Integer(w): w is the
\* input itself when it lies in the i64 range, and v - 2^64 (a negative number)
\* for an unsigned v of 2^63 or more.
C6_IntegerWidening ==
    last[1] \in IntOps
       => /\ ret = Ok
          /\ doc[1] = "Integer"
          /\ IF ~Signed(last[2][1]) /\ TopBit(64, last[2][2])
             THEN /\ NumberOut(doc[2])[1]
                  /\ AddCarry(NumberOut(doc[2])[2], last[2][2]) = <<0, 0, 0, 0, 1>>
             ELSE NumberOut(doc[2]) = NumberIn(last[2][1], last[2][2])

\* u64::MAX stored as Integer(-1).
C6_Witness ==
    /\ last = <<"serialize_u64", <<"u64", Bits(LimbMax, LimbMax, LimbMax, LimbMax)>>>>
    /\ ret = Ok
    /\ NumberOut(doc[2]) = <<TRUE, Small(1)>>

\* A value without its leading present-optional wrappers.
RECURSIVE Strip(_)
Strip(x) == IF x[1] = "some" THEN Strip(x[2]) ELSE x

\* C7: serialize_some(x) gives what encoding x gives, at any depth of wrapping,
\* and serialize_none, serialize_unit and serialize_unit_struct give Null.
C7_OptionalFlattening ==
    /\ last[1] = "serialize_some"
          => IF Encodable(Strip(last[2][1]))
             THEN ret = Ok /\ doc = Enc(Strip(last[2][1]))
             ELSE ret = ToYaml(Strip(last[2][1]))[1]
    /\ last[1] \in {"serialize_none", "serialize_unit", "serialize_unit_struct"}
          => ret = Ok /\ doc = YNull

\* Some(Some(1)) encoded as Integer(1).
C7_Witness ==
    /\ last = <<"serialize_some", <<VSome(I1)>>>>
    /\ ret = Ok
    /\ doc = YInteger(Small(1))

\* C8 as the claim states it: every write_str that returned success has put all
\* its bytes into the sink, and a successful entry point leaves the complete
\* rendered text in the sink.
C8_WritesForwardedInFull ==
    /\ wpc \in {"dump", "done"} => sink = offered
    /\ (wpc = "done" /\ wret = Ok) => sink = Flatten(Dump(Enc(wval)))

\* Whether serializing v sends a map value with no pending key, at any depth.
RECURSIVE Violates(_)
Violates(v) ==
    CASE v[1] \in {"some", "newtype_struct"} -> Violates(v[2])
      [] v[1] = "newtype_variant" -> Violates(v[3])
      [] v[1] = "seq" -> \E i \in 1..Len(v[2]) : Violates(v[2][i])
      [] v[1] = "tuple_variant" -> \E i \in 1..Len(v[3]) : Violates(v[3][i])
      [] v[1] = "map" ->
           \E i \in 1..Len(v[2]) :
               \/ Violates(v[2][i][2])
               \/ v[2][i][1] = "value" /\ (i = 1 \/ v[2][i - 1][1] = "value")
      [] v[1] = "struct" -> \E i \in 1..Len(v[2]) : Violates(v[2][i][2])
      [] v[1] = "struct_variant" -> \E i \in 1..Len(v[3]) : Violates(v[3][i][2])
      [] OTHER -> FALSE

\* The calls that encode an argument, with the place of that argument.
ValueArg ==
    CASE last[1] \in {"serialize_some", "serialize_newtype_struct", "serialize_seq_elt",
                      "serialize_tuple_variant_elt", "serialize_map_key",
                      "serialize_map_value"} -> <<last[2][1]>>
      [] last[1] \in {"serialize_newtype_variant", "serialize_struct_elt",
                      "serialize_struct_variant_elt"} -> <<last[2][2]>>
      [] OTHER -> <<>>

\* The elements or pairs a builder has committed.
Committed(b) ==
    CASE b[1] = "seq" -> b[2]
      [] b[1] = "tv" -> b[2][2]
      [] b[1] \in {"map", "struct"} -> b[2][2]
      [] b[1] = "sv" -> b[2][2][2]
      [] OTHER -> <<>>

\* C9: a protocol error at any depth of the value is returned by every enclosing
\* call, which commits nothing, and by the entry point, which has then written
\* no byte to the sink.
C9_ErrorsPropagate ==
    /\ (ValueArg # <<>> /\ Violates(ValueArg[1]))
          => /\ ret = ErrNoKey
             /\ ToYaml(ValueArg[1]) = <<ErrNoKey>>
             /\ Committed(builder) = Committed(pre)
    /\ (wpc # "idle" /\ Violates(wval))
          => /\ wpc = "done"
             /\ wret = ErrNoKey
             /\ sink = <<>>
             /\ offered = <<>>
    /\ (wpc # "idle" /\ ~Violates(wval)) => wret # ErrNoKey

\* to_string of a map whose value is a variant wrapping the failing value.
C9_Witness ==
    /\ wpc = "done"
    /\ entry = "to_string"
    /\ wval = VMap(<<<<"key", VStr("z")>>, <<"value", VNewtypeVariant("V", Bad)>>>>)
    /\ wret = ErrNoKey
    /\ sink = <<>>

\* C10: closing a Map Builder that holds a pending key succeeds; the Hash holds
\* the committed pairs only, each from a value call that succeeded, and the
\* pending key is dropped.
C10_PendingKeyDropped ==
    (last[1] = "serialize_map_end" /\ pre[2][1] # <<>>)
       => /\ ret = Ok
          /\ doc = YHash(pre[2][2])
          /\ \A p \in 1..Len(doc[2]) :
                \E i \in 1..Len(log) :
                    /\ log[i][1] = "serialize_map_value"
                    /\ Ret(i) = Ok
                    /\ doc[2][p][2] = Enc(Arg(i, 1))

\* A map closed over one committed pair with a different key pending.
C10_Witness ==
    /\ last[1] = "serialize_map_end"
    /\ pre[2][1] # <<>>
    /\ pre[2][2] # <<>>
    /\ ~HasKey(pre[2][2], pre[2][1][1])
    /\ ret = Ok
    /\ doc = YHash(pre[2][2])

====
